---- MODULE Spec2Model ----
(***************************************************************************)
(* Model of the Swiss Transport Planner backend: the TTL caches of the     *)
(* feed adapters (realtime_client.py, traffic_client.py), the refresh      *)
(* jobs and the startup sequence (main.py), and the SSE broadcast hub      *)
(* (main.py: broadcast_event, api_sse_events.event_generator).             *)
(*                                                                         *)
(* The program runs on one asyncio event loop: a step of the model is the  *)
(* code a task executes between two suspension points (an awaited HTTP     *)
(* request, an awaited queue.get(), a yield of the SSE generator).         *)
(***************************************************************************)
EXTENDS Integers, Sequences, FiniteSets, TLC

(* ---------------------------------------------------------------------- *)
(* Bounds of the model                                                     *)
(* ---------------------------------------------------------------------- *)

\* Capacity of a subscriber queue.  The source creates asyncio.Queue(maxsize=50)
\* (main.py:324); the capacity is a parameter of the model and is checked at
\* small values.
QueueMaxSize == 2

\* Number of broadcast_event calls explored: the one of the startup, before
\* any subscriber can connect, and one more than the capacity, so that a
\* subscriber that reads nothing overflows.
MaxPublish == 4

\* Number of further broadcast_event calls explored while the connection of
\* a subscriber whose queue was removed from _subscribers is still open and
\* no other client has connected yet.
MaxPublishEvicted == 1

\* Number of heartbeats explored, over the open connections.
MaxHeartbeats == 1

\* Longest lists of matched situations and of matched lights given to the
\* prediction engine, of candidates given to the proximity matcher, and of
\* disruptions given to the relevance filter.
MaxSituations == 2
MaxLights == 1
MaxCandidates == 2
MaxDisruptions == 2

(* ---------------------------------------------------------------------- *)
(* Domains                                                                 *)
(* ---------------------------------------------------------------------- *)

\* The four polled feeds, by the key of their TTLCache.
Feeds == {"disruptions", "delays", "situations", "lights"}

\* Feeds of realtime_client.py: they check a credential and keep a
\* module-level availability flag.
FlaggedFeeds == {"disruptions", "delays"}

\* Parsed record lists an upstream response can yield: the empty list and a
\* non-empty one.
Records == {<<>>, <<"d1">>}

\* Ways an upstream request can fail: httpx.TimeoutException,
\* httpx.HTTPStatusError (non-2xx), any other exception (transport error,
\* malformed payload).
Failures == {"timeout", "http_error", "error"}

\* A TTLCache slot: <<>> when the key is absent or expired, <<r>> when it
\* holds the record list r.
NoEntry == <<>>
Entry(r) == <<r>>

\* Tasks that run refresh_disruptions: the lifespan startup and the
\* APScheduler interval job (one instance at a time).
Refreshers == {"lifespan", "job_d"}

\* Request handlers that call a feed's fetch function.
Requests == {"q1", "q2"}

\* "job_t" is the APScheduler interval job that runs refresh_traffic.
Tasks == Refreshers \cup Requests \cup {"job_t"}

\* SSE clients; each connects at most once, and they are named in the order
\* in which they connect.
Subscribers == {"s1", "s2"}
ConnectsAfter == [s \in Subscribers |-> IF s = "s2" THEN {"s1"} ELSE {}]

\* Job ids registered with the scheduler by lifespan().
JobIds == {"refresh_disruptions", "refresh_traffic"}


VARIABLES
    cache,                    \* feed -> NoEntry or Entry(records) (the four TTLCaches)
    available,                \* _siri_sx_available / _gtfs_rt_available
    keySet,                   \* flagged feed -> whether its API key setting is non-empty
    inflight,                 \* task -> feed whose upstream response it awaits, or "none"
    returned,                 \* the fetch calls that returned (or raised) in the last step
    latest_disruptions,       \* main._latest_disruptions
    disruptions_available,    \* main._disruptions_available
    latest_traffic_available, \* main._latest_traffic_available
    subscribers,              \* main._subscribers: list of registered queues
    queue,                    \* subscriber -> content of its asyncio.Queue
    pcSub,                    \* subscriber -> position of its event_generator
    stream,                   \* subscriber -> the "connected", snapshot and queued-event
                              \*   messages its generator has yielded, in order
    heartbeats,               \* subscriber -> number of heartbeats its generator has yielded
    jobs,                     \* job ids held by the scheduler
    phase,                    \* position of lifespan(): "init" | "starting" | "ready"
    published,                \* number of broadcast_event calls so far
    regAt,                    \* subscriber -> value of published when it registered
    lastGood,                 \* feed -> <<r>>, r the records of its last successful upstream fetch
    windowVal,                \* feed -> <<r>>, r returned by the call that stored the current entry
    starved,                  \* subscriber -> more than QueueMaxSize events were published
                              \*   after it registered and before it read any of them
    lastCall                  \* the last call of the prediction engine, the proximity
                              \*   matcher or the relevance filter: [op, args, result]

vars == <<cache, available, keySet, inflight, returned, latest_disruptions,
          disruptions_available, latest_traffic_available, subscribers, queue,
          pcSub, stream, heartbeats, jobs, phase, published, regAt, lastGood,
          windowVal, starved, lastCall>>

feedVars == <<cache, available, keySet, lastGood, windowVal>>
hubVars == <<subscribers, queue, pcSub, stream, heartbeats, published, regAt,
             starved>>
mainVars == <<latest_disruptions, disruptions_available, latest_traffic_available>>

(* ---------------------------------------------------------------------- *)
(* Helpers                                                                 *)
(* ---------------------------------------------------------------------- *)

Range(s) == {s[i] : i \in 1..Len(s)}

\* Variant of Remove that drops the last element whatever x is (list.pop()).
RemoveLast(list, x) ==
    IF list = <<>> THEN list ELSE SubSeq(list, 1, Len(list) - 1)

\* list.remove(x): removes the first occurrence of x.
Remove(list, x) ==
    IF x \in Range(list)
    THEN LET i == CHOOSE k \in 1..Len(list) :
                    list[k] = x /\ \A j \in 1..(k-1) : list[j] # x
         IN SubSeq(list, 1, i-1) \o SubSeq(list, i+1, Len(list))
    ELSE list

\* Variant of Full that lets one more element in.
FullOffByOne(q) == Len(q) > QueueMaxSize

\* asyncio.Queue.full()
Full(q) == Len(q) >= QueueMaxSize

\* Variant of RemoveDead that removes nothing.
RemoveDeadNone(list, dead) == list

\* The removal loop of broadcast_event: "for q in dead_queues: if q in
\* _subscribers: _subscribers.remove(q)".
RECURSIVE RemoveDead(_, _)
RemoveDead(list, dead) ==
    IF dead = <<>> THEN list
    ELSE RemoveDead(Remove(list, Head(dead)), Tail(dead))

(* ---------------------------------------------------------------------- *)
(* Feed adapters and their TTL caches                                      *)
(* ---------------------------------------------------------------------- *)

\* Variant of FetchStart that never consults the TTLCache.
FetchStartNoCache(f) ==
    IF f \in FlaggedFeeds
    THEN (IF keySet[f] THEN "io" ELSE "no_key")
    ELSE "raise"

\* The part of a fetch function that runs before its first suspension point:
\*   "hit"    the key is in the TTLCache: return the cached list
\*   "no_key" realtime_client.py: the credential is empty: return ([], False)
\*   "io"     realtime_client.py: issue the HTTP request and await the response
\*   "raise"  traffic_client.py: building the headers reads settings.OTD_API_KEY,
\*            which Settings (config.py) does not define; the AttributeError is
\*            raised outside the try block and leaves the function
FetchStart(f) ==
    IF cache[f] # NoEntry THEN "hit"
    ELSE IF f \in FlaggedFeeds
         THEN (IF keySet[f] THEN "io" ELSE "no_key")
         ELSE "raise"

\* What a fetch call gave task c: kind is "ok" (a (records, available) tuple),
\* "list" (a bare record list, traffic_client.py) or "raised" (an exception
\* left the function); path names the branch that produced it.
Return(c, kind, path, f, value, avail) ==
    [task |-> c, kind |-> kind, path |-> path, feed |-> f, value |-> value,
     available |-> avail]

\* What a cache hit returns: realtime_client.py returns (cached list, current
\* availability flag), traffic_client.py the cached list alone.
HitReturn(c, f) ==
    IF f \in FlaggedFeeds
    THEN Return(c, "ok", "hit", f, cache[f][1], available[f])
    ELSE Return(c, "list", "hit", f, cache[f][1], FALSE)

\* Return value of the missing-credential branch.
NoKeyReturn(c, f) == Return(c, "ok", "no_key", f, <<>>, FALSE)

\* The AttributeError of traffic_client.py reaching the caller.
RaisedReturn(c, f) == Return(c, "raised", "settings", f, <<>>, FALSE)

\* What the awaited upstream request can turn into.  On success the parsed
\* list is stored and returned.  On failure fetch_siri_sx_disruptions returns
\* its still empty local list; fetch_gtfs_rt_delays parses inside the try
\* block without a per-entity handler, so an exception in the middle of the
\* parse leaves a partly filled dict.
UpstreamOutcomes(f) ==
    {[ok |-> TRUE, why |-> "none", records |-> r] : r \in Records}
    \cup {[ok |-> FALSE, why |-> w, records |-> <<>>] : w \in Failures}
    \cup (IF f = "delays"
          THEN {[ok |-> FALSE, why |-> "error", records |-> r] : r \in Records}
          ELSE {})

\* Return value of a fetch whose upstream request ended with outcome o: the
\* local list and the availability flag as just set.
DoneReturn(c, f, o) == Return(c, "ok", "upstream", f, o.records, o.ok)

\* What a fetch that does not suspend returns.
ImmediateReturn(c, f) ==
    CASE FetchStart(f) = "hit" -> HitReturn(c, f)
      [] FetchStart(f) = "no_key" -> NoKeyReturn(c, f)
      [] OTHER -> RaisedReturn(c, f)

\* State change of a fetch up to its first suspension point or its return:
\* only the missing-credential branch writes, it clears the flag.
StartEffect(f) ==
    /\ available' = IF FetchStart(f) = "no_key"
                    THEN [available EXCEPT ![f] = FALSE]
                    ELSE available
    /\ UNCHANGED <<cache, keySet, lastGood, windowVal, lastCall>>

\* State change at the end of the upstream request: on success the list is
\* stored under the feed's key (which restarts its TTL) and the flag is set;
\* on any failure only the flag is cleared.
DoneEffect(f, o) ==
    /\ cache' = IF o.ok THEN [cache EXCEPT ![f] = Entry(o.records)] ELSE cache
    /\ available' = [available EXCEPT ![f] = o.ok]
    /\ lastGood' = IF o.ok THEN [lastGood EXCEPT ![f] = <<o.records>>] ELSE lastGood
    /\ windowVal' = IF o.ok THEN [windowVal EXCEPT ![f] = <<o.records>>] ELSE windowVal
    /\ UNCHANGED <<keySet, lastCall>>

\* The TTL of a cache entry elapses: TTLCache no longer contains the key.
Expire(f) ==
    /\ cache[f] # NoEntry
    /\ cache' = [cache EXCEPT ![f] = NoEntry]
    /\ windowVal' = [windowVal EXCEPT ![f] = <<>>]
    /\ returned' = <<>>
    /\ UNCHANGED <<available, keySet, lastGood, lastCall>>
    /\ UNCHANGED <<inflight, mainVars, hubVars, jobs, phase>>

\* A request handler calls the fetch function of feed f and runs up to the
\* first suspension point (or to the return).
RequestFetch(q, f) ==
    /\ phase = "ready"
    /\ inflight[q] = "none"
    /\ StartEffect(f)
    /\ IF FetchStart(f) = "io"
       THEN /\ inflight' = [inflight EXCEPT ![q] = f]
            /\ returned' = <<>>
       ELSE /\ returned' = <<ImmediateReturn(q, f)>>
            /\ UNCHANGED inflight
    /\ UNCHANGED <<mainVars, hubVars, jobs, phase>>

\* The upstream request of a request handler ends.
RequestDone(q) ==
    /\ inflight[q] # "none"
    /\ \E o \in UpstreamOutcomes(inflight[q]) :
          /\ DoneEffect(inflight[q], o)
          /\ returned' = <<DoneReturn(q, inflight[q], o)>>
    /\ inflight' = [inflight EXCEPT ![q] = "none"]
    /\ UNCHANGED <<mainVars, hubVars, jobs, phase>>

(* ---------------------------------------------------------------------- *)
(* main.py: broadcast hub                                                  *)
(* ---------------------------------------------------------------------- *)

\* Message yielded by the SSE generator.  src tells where it came from:
\* "generator" (synthetic), "snapshot" (built from the module state) or
\* "queue" (an SSEEvent taken from the subscriber's queue, identified by its
\* number seq).  The payload is recorded for the snapshot.
Message(type, src, seq, disruptions, avail) ==
    [type |-> type, src |-> src, seq |-> seq, disruptions |-> disruptions,
     available |-> avail]

\* The SSEEvent built by refresh_disruptions; seq numbers the broadcasts.
UpdateEvent(seq, disruptions, avail) ==
    [type |-> "disruptions_update", seq |-> seq, disruptions |-> disruptions,
     available |-> avail]

\* Subscriber s has been handed no event from its queue yet.
NoLive(s) == \A i \in 1..Len(stream[s]) : stream[s][i].src # "queue"

\* Variant of Broadcast that passes by the queues whose generator has not
\* reached its streaming loop yet, as if a queue were registered only after
\* the snapshot.
BroadcastStreamingOnly(event) ==
    LET listening == SelectSeq(subscribers, LAMBDA s : pcSub[s] = "streaming")
        dead_queues == SelectSeq(listening, LAMBDA s : Full(queue[s])) IN
    /\ queue' = [s \in Subscribers |->
                    IF s \in Range(listening) /\ ~Full(queue[s])
                    THEN Append(queue[s], event)
                    ELSE queue[s]]
    /\ subscribers' = RemoveDead(subscribers, dead_queues)
    /\ published' = published + 1
    /\ starved' = starved
    /\ UNCHANGED <<pcSub, stream, heartbeats, regAt>>

\* Variant of Broadcast in which QueueFull is not caught: the loop ends at
\* the first full queue, the queues after it are not offered the event and
\* nothing is removed from _subscribers.
BroadcastStopsAtFull(event) ==
    LET before(i) == \A j \in 1..i : ~Full(queue[subscribers[j]])
        offered == {subscribers[i] : i \in {k \in 1..Len(subscribers) : before(k)}} IN
    /\ queue' = [s \in Subscribers |->
                    IF s \in offered THEN Append(queue[s], event) ELSE queue[s]]
    /\ subscribers' = subscribers
    /\ published' = published + 1
    /\ starved' = [s \in Subscribers |->
                    IF starved[s] THEN TRUE
                    ELSE /\ pcSub[s] \in {"connected", "streaming"}
                         /\ NoLive(s)
                         /\ published + 1 - regAt[s] > QueueMaxSize]
    /\ UNCHANGED <<pcSub, stream, heartbeats, regAt>>

\* Variant of Broadcast whose loop ends after the first registered queue.
BroadcastFirstOnly(event) ==
    LET first == IF subscribers = <<>> THEN <<>> ELSE <<Head(subscribers)>>
        dead_queues == SelectSeq(first, LAMBDA s : Full(queue[s])) IN
    /\ queue' = [s \in Subscribers |->
                    IF s \in Range(first) /\ ~Full(queue[s])
                    THEN Append(queue[s], event)
                    ELSE queue[s]]
    /\ subscribers' = RemoveDead(subscribers, dead_queues)
    /\ published' = published + 1
    /\ starved' = starved
    /\ UNCHANGED <<pcSub, stream, heartbeats, regAt>>

\* broadcast_event: put_nowait on every registered queue; the queues that
\* raise QueueFull are collected and removed from _subscribers afterwards.
Broadcast(event) ==
    LET dead_queues == SelectSeq(subscribers, LAMBDA s : Full(queue[s])) IN
    /\ queue' = [s \in Subscribers |->
                    IF s \in Range(subscribers) /\ ~Full(queue[s])
                    THEN Append(queue[s], event)
                    ELSE queue[s]]
    /\ subscribers' = RemoveDead(subscribers, dead_queues)
    /\ published' = published + 1
    /\ starved' = [s \in Subscribers |->
                    IF starved[s] THEN TRUE
                    ELSE /\ pcSub[s] \in {"connected", "streaming"}
                         /\ NoLive(s)
                         /\ published + 1 - regAt[s] > QueueMaxSize]
    /\ UNCHANGED <<pcSub, stream, heartbeats, regAt>>

(* ---------------------------------------------------------------------- *)
(* main.py: refresh jobs and startup                                       *)
(* ---------------------------------------------------------------------- *)

\* What refresh_traffic's call of fetch_traffic_situations gives it; the
\* fetch never suspends.
TrafficReturn(c) == ImmediateReturn(c, "situations")

\* refresh_traffic: "situations, available = await fetch_traffic_situations()".
\* The fetch raises, or returns a bare list whose unpacking into two names
\* raises unless it has exactly two elements; the handler's except branch
\* then clears the flag.
RefreshTrafficAvailable(c) ==
    TrafficReturn(c).kind = "list" /\ Len(TrafficReturn(c).value) = 2

\* Variant of RefreshFinish in which a failed fetch at startup ends the
\* startup sequence: refresh_traffic is not called.
RefreshFinishAbort(c, r) ==
    /\ latest_disruptions' = r.value
    /\ disruptions_available' = r.available
    /\ Broadcast(UpdateEvent(published + 1, r.value, r.available))
    /\ IF c = "lifespan"
       THEN /\ latest_traffic_available' =
                  IF r.available THEN RefreshTrafficAvailable(c)
                  ELSE latest_traffic_available
            /\ phase' = "ready"
            /\ returned' = IF r.available THEN <<r, TrafficReturn(c)>> ELSE <<r>>
       ELSE /\ UNCHANGED <<latest_traffic_available, phase>>
            /\ returned' = <<r>>

\* refresh_disruptions from the return r of the fetch to its end: the module
\* state is replaced by what the fetch returned and the update is broadcast.
\* In the lifespan the call of refresh_traffic follows without a suspension
\* point, and the application becomes ready.
RefreshFinish(c, r) ==
    /\ latest_disruptions' = r.value
    /\ disruptions_available' = r.available
    /\ Broadcast(UpdateEvent(published + 1, r.value, r.available))
    /\ IF c = "lifespan"
       THEN /\ latest_traffic_available' = RefreshTrafficAvailable(c)
            /\ phase' = "ready"
            /\ returned' = <<r, TrafficReturn(c)>>
       ELSE /\ UNCHANGED <<latest_traffic_available, phase>>
            /\ returned' = <<r>>

\* refresh_disruptions up to the first suspension point of the fetch, or to
\* its end when the fetch returns without suspending.
RefreshStart(c) ==
    /\ StartEffect("disruptions")
    /\ IF FetchStart("disruptions") = "io"
       THEN /\ inflight' = [inflight EXCEPT ![c] = "disruptions"]
            /\ returned' = <<>>
            /\ phase' = IF c = "lifespan" THEN "starting" ELSE phase
            /\ UNCHANGED <<mainVars, hubVars>>
       ELSE /\ RefreshFinish(c, ImmediateReturn(c, "disruptions"))
            /\ UNCHANGED inflight

\* Variant of LifespanStart that yields to the server before the initial
\* refresh has returned (the refresh is left running as a background task).
LifespanStartYieldsFirst ==
    /\ phase = "init"
    /\ jobs' = JobIds
    /\ StartEffect("disruptions")
    /\ IF FetchStart("disruptions") = "io"
       THEN /\ inflight' = [inflight EXCEPT !["lifespan"] = "disruptions"]
            /\ returned' = <<>>
            /\ phase' = "ready"
            /\ UNCHANGED <<mainVars, hubVars>>
       ELSE /\ RefreshFinish("lifespan", ImmediateReturn("lifespan", "disruptions"))
            /\ UNCHANGED inflight

\* lifespan(): the two interval jobs are added, the scheduler is started and
\* the initial refresh_disruptions begins.
LifespanStart ==
    /\ phase = "init"
    /\ jobs' = JobIds
    /\ RefreshStart("lifespan")

\* The upstream request of a running refresh_disruptions ends.
RefreshDone(c) ==
    /\ inflight[c] = "disruptions"
    /\ \E o \in UpstreamOutcomes("disruptions") :
          /\ DoneEffect("disruptions", o)
          /\ RefreshFinish(c, DoneReturn(c, "disruptions", o))
    /\ inflight' = [inflight EXCEPT ![c] = "none"]
    /\ UNCHANGED jobs

\* The generator of subscriber s is running and its queue is no longer in
\* _subscribers: broadcast_event found the queue full and removed it.
Evicted(s) ==
    pcSub[s] \in {"connected", "streaming"} /\ s \notin Range(subscribers)

\* The scheduler fires the refresh_disruptions job (no instance is running).
TickDisruptions ==
    /\ "refresh_disruptions" \in jobs
    /\ inflight["job_d"] = "none"
    /\ published + Cardinality({c \in Refreshers : inflight[c] # "none"})
          < MaxPublish + (IF \E s \in Subscribers :
                                /\ Evicted(s)
                                /\ \A t \in Subscribers \ {s} : pcSub[t] = "idle"
                          THEN MaxPublishEvicted ELSE 0)
    /\ RefreshStart("job_d")
    /\ UNCHANGED jobs

\* The scheduler fires the refresh_traffic job.
TickTraffic ==
    /\ "refresh_traffic" \in jobs
    /\ latest_traffic_available' = RefreshTrafficAvailable("job_t")
    /\ returned' = <<TrafficReturn("job_t")>>
    /\ UNCHANGED <<feedVars, lastCall, inflight, latest_disruptions, disruptions_available,
                   hubVars, jobs, phase>>

(* ---------------------------------------------------------------------- *)
(* main.py: api_sse_events.event_generator                                 *)
(* ---------------------------------------------------------------------- *)

Emit(s, m) == stream' = [stream EXCEPT ![s] = Append(@, m)]

\* Variant of Connect whose new queue already holds the last broadcast.
ConnectReplay(s) ==
    /\ phase = "ready"
    /\ pcSub[s] = "idle"
    /\ \A t \in ConnectsAfter[s] : pcSub[t] # "idle"
    /\ queue' = [queue EXCEPT ![s] =
                    <<UpdateEvent(published, latest_disruptions, disruptions_available)>>]
    /\ subscribers' = Append(subscribers, s)
    /\ regAt' = [regAt EXCEPT ![s] = published]
    /\ Emit(s, Message("connected", "generator", 0, <<>>, FALSE))
    /\ pcSub' = [pcSub EXCEPT ![s] = "connected"]
    /\ returned' = <<>>
    /\ UNCHANGED <<feedVars, lastCall, inflight, mainVars, jobs, phase, published,
                   heartbeats, starved>>

\* A client connects: the generator creates its queue, appends it to
\* _subscribers and yields the "connected" message.
Connect(s) ==
    /\ phase = "ready"
    /\ pcSub[s] = "idle"
    /\ \A t \in ConnectsAfter[s] : pcSub[t] # "idle"
    /\ queue' = [queue EXCEPT ![s] = <<>>]
    /\ subscribers' = Append(subscribers, s)
    /\ regAt' = [regAt EXCEPT ![s] = published]
    /\ Emit(s, Message("connected", "generator", 0, <<>>, FALSE))
    /\ pcSub' = [pcSub EXCEPT ![s] = "connected"]
    /\ returned' = <<>>
    /\ UNCHANGED <<feedVars, lastCall, inflight, mainVars, jobs, phase, published,
                   heartbeats, starved>>

\* The generator is resumed and yields the snapshot of the module state.
Snapshot(s) ==
    /\ pcSub[s] = "connected"
    /\ Emit(s, Message("disruptions_update", "snapshot", 0,
                       latest_disruptions, disruptions_available))
    /\ pcSub' = [pcSub EXCEPT ![s] = "streaming"]
    /\ returned' = <<>>
    /\ UNCHANGED <<feedVars, lastCall, inflight, mainVars, jobs, phase,
                   subscribers, queue, published, regAt, heartbeats, starved>>

\* Variant of NextEvent that takes the newest queued event (a LIFO queue).
NextEventLifo(s) ==
    /\ pcSub[s] = "streaming"
    /\ queue[s] # <<>>
    /\ Emit(s, Message(queue[s][Len(queue[s])].type, "queue",
                       queue[s][Len(queue[s])].seq, <<>>, FALSE))
    /\ queue' = [queue EXCEPT ![s] = SubSeq(@, 1, Len(@) - 1)]
    /\ returned' = <<>>
    /\ UNCHANGED <<feedVars, lastCall, inflight, mainVars, jobs, phase,
                   subscribers, pcSub, published, regAt, heartbeats, starved>>

\* queue.get() returns the oldest queued event, which is yielded.
NextEvent(s) ==
    /\ pcSub[s] = "streaming"
    /\ queue[s] # <<>>
    /\ Emit(s, Message(Head(queue[s]).type, "queue", Head(queue[s]).seq, <<>>, FALSE))
    /\ queue' = [queue EXCEPT ![s] = Tail(@)]
    /\ returned' = <<>>
    /\ UNCHANGED <<feedVars, lastCall, inflight, mainVars, jobs, phase,
                   subscribers, pcSub, published, regAt, heartbeats, starved>>

\* The number of heartbeats that the generators of S have yielded on their
\* current connections.
RECURSIVE HeartbeatsYielded(_)
HeartbeatsYielded(S) ==
    IF S = {} THEN 0
    ELSE LET s == CHOOSE x \in S : TRUE
         IN heartbeats[s] + HeartbeatsYielded(S \ {s})

\* Variant of Heartbeat that sends the heartbeat through broadcast_event: it
\* is put on the queue of every other registered subscriber that has room.
HeartbeatViaHub(s) ==
    /\ pcSub[s] = "streaming"
    /\ queue[s] = <<>>
    /\ HeartbeatsYielded(Subscribers) < MaxHeartbeats
    /\ heartbeats' = [heartbeats EXCEPT ![s] = @ + 1]
    /\ queue' = [t \in Subscribers |->
                    IF t # s /\ t \in Range(subscribers) /\ ~Full(queue[t])
                    THEN Append(queue[t], [type |-> "heartbeat", seq |-> published,
                                           disruptions |-> <<>>, available |-> FALSE])
                    ELSE queue[t]]
    /\ returned' = <<>>
    /\ UNCHANGED <<feedVars, lastCall, inflight, mainVars, jobs, phase, stream,
                   subscribers, pcSub, published, regAt, starved>>

\* queue.get() times out after SSE_HEARTBEAT_INTERVAL on an empty queue: a
\* heartbeat is yielded.
Heartbeat(s) ==
    /\ pcSub[s] = "streaming"
    /\ queue[s] = <<>>
    /\ HeartbeatsYielded(Subscribers) < MaxHeartbeats
    /\ heartbeats' = [heartbeats EXCEPT ![s] = @ + 1]
    /\ returned' = <<>>
    /\ UNCHANGED <<feedVars, lastCall, inflight, mainVars, jobs, phase, stream,
                   subscribers, queue, pcSub, published, regAt, starved>>

\* The client disconnects: the generator is closed at its current yield or
\* await, and its finally block removes the queue from _subscribers.  The
\* queue and the response go away with the generator, so the record of what
\* the connection was sent is dropped with them.
Disconnect(s) ==
    /\ pcSub[s] \in {"connected", "streaming"}
    /\ subscribers' = Remove(subscribers, s)
    /\ queue' = [queue EXCEPT ![s] = <<>>]
    /\ pcSub' = [pcSub EXCEPT ![s] = "closed"]
    /\ stream' = [stream EXCEPT ![s] = <<>>]
    /\ heartbeats' = [heartbeats EXCEPT ![s] = 0]
    /\ regAt' = [regAt EXCEPT ![s] = 0]
    /\ starved' = [starved EXCEPT ![s] = FALSE]
    /\ returned' = <<>>
    /\ UNCHANGED <<feedVars, lastCall, inflight, mainVars, jobs, phase, published>>

(* ---------------------------------------------------------------------- *)
(* prediction_engine.py                                                    *)
(* ---------------------------------------------------------------------- *)

\* An Optional value: <<>> is None, <<x>> the value x.
\* Python truth value of an Optional[float]: None and 0.0 are false.
Truthy(o) == IF o = <<>> THEN FALSE ELSE o[1] # 0

\* Python truth value of an Optional[str]: None and "" are false.
TruthyStr(o) == IF o = <<>> THEN FALSE ELSE o[1] # ""

Max(a, b) == IF a >= b THEN a ELSE b
Min(a, b) == IF a <= b THEN a ELSE b

\* Times of day are minutes after midnight (the seconds are not modelled).
MORNING_PEAK_START == 5 * 60 + 45
MORNING_PEAK_END == 7 * 60
EVENING_PEAK_START == 16 * 60 + 30
EVENING_PEAK_END == 18 * 60

\* The rule table, in minutes.  The accumulated delay is a float in the
\* source and takes half-minute values; the model counts it in half-minutes,
\* so the two base delays (1 and 0.5) and the multiplier (1.5) are given as
\* numerators over 2.
RULES ==
    [situation_severe |-> 8, situation_moderate |-> 4, situation_minor |-> 2,
     los_f |-> 6, los_e |-> 4, los_d |-> 2, los_c |-> 1, los_ab |-> 0,
     spillback_per_100m |-> 1,
     peak_multiplier_x2 |-> 3,
     base_bus_x2 |-> 2, base_tram_x2 |-> 1]

\* Variant of CONFIDENCE with the two data boosts exchanged.
CONFIDENCE_BoostsExchanged ==
    [base |-> 70, with_traffic_data |-> 10, with_light_data |-> 15,
     peak_hour_penalty |-> -10, no_data_penalty |-> -30]

\* The confidence adjustments, in hundredths.
CONFIDENCE ==
    [base |-> 70, with_traffic_data |-> 15, with_light_data |-> 10,
     peak_hour_penalty |-> -10, no_data_penalty |-> -30]

is_peak_hour(t) ==
    IF MORNING_PEAK_START <= t /\ t <= MORNING_PEAK_END THEN TRUE
    ELSE EVENING_PEAK_START <= t /\ t <= EVENING_PEAK_END

\* str.upper() on the level-of-service letters.
Upper(c) ==
    CASE c = "a" -> "A" [] c = "b" -> "B" [] c = "c" -> "C"
      [] c = "d" -> "D" [] c = "e" -> "E" [] c = "f" -> "F"
      [] OTHER -> c

get_los_delay(los) ==
    IF ~TruthyStr(los) THEN 0
    ELSE CASE Upper(los[1]) = "F" -> RULES.los_f
           [] Upper(los[1]) = "E" -> RULES.los_e
           [] Upper(los[1]) = "D" -> RULES.los_d
           [] Upper(los[1]) = "C" -> RULES.los_c
           [] OTHER -> RULES.los_ab

\* The words of the severity buckets that severity.lower() contains, for the
\* severity strings of the model.
SeverityWords(severity) ==
    CASE severity \in {"severe", "Severe"} -> {"severe"}
      [] severity \in {"dangerous", "Danger"} -> {"danger"}
      [] severity = "moderate" -> {"moderate"}
      [] severity = "normal" -> {"normal"}
      [] OTHER -> {}

\* Variant of get_situation_delay with the severe and the minor increments
\* exchanged.
get_situation_delay_swapped(severity) ==
    IF SeverityWords(severity) \cap {"severe", "danger"} # {}
    THEN RULES.situation_minor
    ELSE IF SeverityWords(severity) \cap {"moderate", "normal"} # {}
         THEN RULES.situation_moderate
         ELSE RULES.situation_severe

get_situation_delay(severity) ==
    IF SeverityWords(severity) \cap {"severe", "danger"} # {}
    THEN RULES.situation_severe
    ELSE IF SeverityWords(severity) \cap {"moderate", "normal"} # {}
         THEN RULES.situation_moderate
         ELSE RULES.situation_minor

\* Variant of get_spillback_delay that caps the contribution at 5 minutes.
get_spillback_delay_capped(spillback_meters) ==
    IF ~Truthy(spillback_meters) THEN 0
    ELSE IF spillback_meters[1] <= 0 THEN 0
         ELSE Min(5, (spillback_meters[1] \div 100) * RULES.spillback_per_100m)

\* int((spillback_meters / 100) * 1) for a positive length (whole metres).
get_spillback_delay(spillback_meters) ==
    IF ~Truthy(spillback_meters) THEN 0
    ELSE IF spillback_meters[1] <= 0 THEN 0
         ELSE (spillback_meters[1] \div 100) * RULES.spillback_per_100m

\* Variant of PyRound that rounds a tie up.
PyRoundHalfUp(h) == (h + 1) \div 2

\* Python's round() of h half-minutes: the nearest integer, a tie going to
\* the even one.
PyRound(h) ==
    IF h % 2 = 0 THEN h \div 2
    ELSE IF (h \div 2) % 2 = 0 THEN h \div 2 ELSE (h \div 2) + 1

RECURSIVE SumSeq(_)
SumSeq(q) == IF q = <<>> THEN 0 ELSE Head(q) + SumSeq(Tail(q))

\* Variant of RoadModes that takes the metro for a road mode.
RoadModesWithMetro == {"bus", "tram", "metro"}

\* Modes predicted for.
RoadModes == {"bus", "tram"}

\* The route points collected from the leg: the origin, the intermediate
\* stops and the destination, each only if both coordinates are truthy.
RoutePoints(leg) ==
    LET stops == <<leg.origin>> \o leg.intermediate_stops \o <<leg.destination>>
        located == SelectSeq(stops,
                       LAMBDA p : Truthy(p.latitude) /\ Truthy(p.longitude))
    IN [i \in 1..Len(located) |-> <<located[i].latitude[1], located[i].longitude[1]>>]

\* predict_delay_for_leg awaits get_traffic_near_route for this leg.
LookupNeeded(leg) == leg.mode \in RoadModes /\ RoutePoints(leg) # <<>>

\* A factor string: the text of the rule that fired and, for the two
\* f-strings, the text interpolated after it ("" otherwise).  The
\* descriptions of the model are shorter than the 50 characters kept by
\* description[:50].
Factor(rule, about) == [rule |-> rule, about |-> about]

\* "light.name or light.intersection_id"
LightLabel(light) ==
    IF TruthyStr(light.name) THEN light.name[1] ELSE light.intersection_id

\* Delay contributions and factors of the matched situations, in order, each
\* only if its contribution is positive.
SituationDelays(situations) ==
    SelectSeq([i \in 1..Len(situations) |->
                  [factor |-> Factor("Traffic: ", situations[i].description),
                   delay |-> get_situation_delay(situations[i].severity)]],
              LAMBDA c : c.delay > 0)

\* Delay contributions of the matched lights, in order: for each light its
\* level-of-service delay and then its spillback delay, each only if positive.
RECURSIVE LightDelays(_)
LightDelays(lights) ==
    IF lights = <<>> THEN <<>>
    ELSE LET l == Head(lights)
             los == get_los_delay(l.level_of_service)
             spill == get_spillback_delay(l.spillback_length_meters)
         IN (IF los > 0
             THEN <<[factor |-> Factor("Congestion at ", LightLabel(l)), delay |-> los]>>
             ELSE <<>>)
            \o (IF spill > 0
                THEN <<[factor |-> Factor("Queue at ", LightLabel(l)), delay |-> spill]>>
                ELSE <<>>)
            \o LightDelays(Tail(lights))

\* Variant of TopFactors that keeps every factor.
TopFactorsAll(factors) == factors

\* Variant of TopFactors that keeps the last five factors.
TopFactorsLast(factors) ==
    SubSeq(factors, Max(1, Len(factors) - 4), Len(factors))

\* factors[:5]
TopFactors(factors) == SubSeq(factors, 1, Min(5, Len(factors)))

\* predict_delay_for_leg.  lookup is what the awaited get_traffic_near_route
\* gave: <<>> when it is not awaited, else <<o>> with o.raised telling that
\* an exception came out of it and o.situations, o.lights the matched lists.
\* The result is <<>> (None) or <<prediction>>; the confidence is in
\* hundredths.
predict_delay_for_leg(leg, lookup) ==
    IF leg.mode \notin RoadModes THEN <<>>
    ELSE
    LET base == IF leg.mode = "bus" THEN RULES.base_bus_x2 ELSE RULES.base_tram_x2
        baseFactor == IF leg.mode = "bus" THEN Factor("Bus service variability", "")
                      ELSE Factor("Tram service variability", "")
        looked == RoutePoints(leg) # <<>>
        ok == IF looked THEN ~lookup[1].raised ELSE FALSE
        situations == IF ok THEN lookup[1].situations ELSE <<>>
        lights == IF ok THEN lookup[1].lights ELSE <<>>
        sitDelays == SituationDelays(situations)
        lightDelays == LightDelays(lights)
        accumulated == base + 2 * SumSeq([i \in 1..Len(sitDelays) |-> sitDelays[i].delay])
                            + 2 * SumSeq([i \in 1..Len(lightDelays) |-> lightDelays[i].delay])
        dataFactors ==
            IF ~looked THEN <<Factor("No coordinates available for traffic lookup", "")>>
            ELSE IF ~ok THEN <<Factor("Limited traffic data available", "")>>
            ELSE [i \in 1..Len(sitDelays) |-> sitDelays[i].factor]
                 \o [i \in 1..Len(lightDelays) |-> lightDelays[i].factor]
        is_peak == is_peak_hour(leg.departure)
        \* int(total_delay * 1.5), back in half-minutes
        total == IF is_peak
                 THEN 2 * ((accumulated * RULES.peak_multiplier_x2) \div 4)
                 ELSE accumulated
        confidence == CONFIDENCE.base
            + (IF situations # <<>> THEN CONFIDENCE.with_traffic_data ELSE 0)
            + (IF lights # <<>> THEN CONFIDENCE.with_light_data ELSE 0)
            + (IF ~ok THEN CONFIDENCE.no_data_penalty ELSE 0)
            + (IF is_peak THEN CONFIDENCE.peak_hour_penalty ELSE 0)
        factors == <<baseFactor>> \o dataFactors
                   \o (IF is_peak THEN <<Factor("Peak hour traffic", "")>> ELSE <<>>)
    IN <<[predicted_delay_minutes |-> Max(0, PyRound(total)),
          confidence_score |-> Max(10, Min(100, confidence)),
          factors |-> TopFactors(factors),
          is_peak_hour |-> is_peak]>>

\* Variant of predict_delays_for_trip in which the exception of a failed
\* lookup ends the loop: the legs from that one on get no result.
predict_delays_for_trip_abort(legs, lookups) ==
    LET failed == {i \in 1..Len(legs) :
                      IF lookups[i] = <<>> THEN FALSE ELSE lookups[i][1].raised}
        done == {i \in 1..Len(legs) : \A j \in failed : i < j}
    IN [i \in 1..Cardinality(done) |->
            <<i - 1, predict_delay_for_leg(legs[i], lookups[i])>>]

\* predict_delays_for_trip: the legs are predicted in order, each with what
\* its own lookup gives; lookups[i] is the lookup argument for leg i.
predict_delays_for_trip(legs, lookups) ==
    [i \in 1..Len(legs) |-> <<i - 1, predict_delay_for_leg(legs[i], lookups[i])>>]

(* ---------------------------------------------------------------------- *)
(* traffic_client.py: proximity matching                                   *)
(* ---------------------------------------------------------------------- *)

\* haversine_distance.  Latitudes are counted in steps of 0.1 km of arc, so
\* that two points on one meridian are |lat1 - lat2| tenths of a kilometre
\* apart; the meridians of the model are hundreds of kilometres from each
\* other.
haversine_distance(lat1, lon1, lat2, lon2) ==
    IF lon1 = lon2
    THEN (IF lat1 >= lat2 THEN lat1 - lat2 ELSE lat2 - lat1)
    ELSE 1000 * (IF lon1 >= lon2 THEN lon1 - lon2 ELSE lon2 - lon1)

\* The test of the two filter loops: both coordinates are truthy and some
\* route point is within the radius.
WithinRadius(c, route_points, radius_km) ==
    IF Truthy(c.latitude) /\ Truthy(c.longitude)
    THEN \E i \in 1..Len(route_points) :
            haversine_distance(c.latitude[1], c.longitude[1],
                               route_points[i][1], route_points[i][2]) <= radius_km
    ELSE FALSE

\* get_traffic_near_route.  fetched is what the two awaited fetch calls gave:
\* fetched.raised when an exception came out of one of them, else the two
\* lists.  The radius is in tenths of a kilometre.
get_traffic_near_route(route_points, radius_km, fetched) ==
    IF fetched.raised
    THEN [raised |-> TRUE, situations |-> <<>>, lights |-> <<>>]
    ELSE [raised |-> FALSE,
          situations |-> SelectSeq(fetched.situations,
                            LAMBDA c : WithinRadius(c, route_points, radius_km)),
          lights |-> SelectSeq(fetched.lights,
                            LAMBDA c : WithinRadius(c, route_points, radius_km))]

\* What fetch_traffic_situations() and fetch_traffic_lights() give a caller
\* in the current state of their caches.
TrafficFetched ==
    IF FetchStart("situations") = "hit" /\ FetchStart("lights") = "hit"
    THEN [raised |-> FALSE, situations |-> cache["situations"][1],
          lights |-> cache["lights"][1]]
    ELSE [raised |-> TRUE, situations |-> <<>>, lights |-> <<>>]

(* ---------------------------------------------------------------------- *)
(* realtime_client.py: relevance filter                                    *)
(* ---------------------------------------------------------------------- *)

\* Variant of get_disruptions_for_route that requires both intersections.
get_disruptions_for_route_both(stop_ids, line_refs, all_disruptions) ==
    SelectSeq(all_disruptions,
        LAMBDA d : /\ Range(d.affected_stops) \cap Range(stop_ids) # {}
                   /\ Range(d.affected_lines) \cap Range(line_refs) # {})

\* get_disruptions_for_route, from the list all_disruptions that its
\* fetch_siri_sx_disruptions() call returned.
get_disruptions_for_route(stop_ids, line_refs, all_disruptions) ==
    SelectSeq(all_disruptions,
        LAMBDA d : IF Range(d.affected_stops) \cap Range(stop_ids) # {} THEN TRUE
                   ELSE Range(d.affected_lines) \cap Range(line_refs) # {})

(* ---------------------------------------------------------------------- *)
(* main.py: GET /api/disruptions/for-route                                 *)
(* ---------------------------------------------------------------------- *)

\* The response of api_get_disruptions_for_route when the fetch inside its
\* get_disruptions_for_route call has given r: "available" is read from the
\* module state, "disruptions" is filtered from the records of r (the
\* availability that came with them is discarded by the "_" of
\* realtime_client.py:216).  The handler does not suspend between the return
\* of the fetch and its own return.
api_get_disruptions_for_route(r) ==
    [available |-> disruptions_available, records |-> r.value]

(* ---------------------------------------------------------------------- *)
(* Calls of the engine, the matcher and the filter                         *)
(* ---------------------------------------------------------------------- *)

\* The sequences over S of length at most n.
SeqsUpTo(S, n) == UNION {[1..k -> S] : k \in 0..n}

\* TransportMode
Modes == {"rail", "bus", "tram", "metro", "funicular", "ferry", "cableway",
          "walk", "unknown"}

\* Coordinates of a stop: none, on the equator (latitude 0.0), and two
\* located stops 0.8 km apart on the meridian 85.
Coord(lat, lon) == [latitude |-> lat, longitude |-> lon]
NoCoord == Coord(<<>>, <<>>)

\* Scheduled departures: around the bounds of both peak windows, and midday.
Departures ==
    {MORNING_PEAK_START - 1, MORNING_PEAK_START, 6 * 60, MORNING_PEAK_END,
     MORNING_PEAK_END + 1, 13 * 60, EVENING_PEAK_START, EVENING_PEAK_END,
     EVENING_PEAK_END + 1}

Leg(mode, origin, inter, destination, departure) ==
    [mode |-> mode, origin |-> origin, intermediate_stops |-> inter,
     destination |-> destination, departure |-> departure]

\* Stops of a leg, as <<origin, intermediate stops, destination>>: no located
\* stop, an origin on the equator only, a located origin only, a located
\* intermediate stop only, a located destination after an origin on the
\* equator, and every stop located.
LegStops ==
    {<<NoCoord, <<>>, NoCoord>>,
     <<Coord(<<0>>, <<85>>), <<>>, NoCoord>>,
     <<Coord(<<1>>, <<85>>), <<>>, NoCoord>>,
     <<NoCoord, <<Coord(<<9>>, <<85>>)>>, NoCoord>>,
     <<Coord(<<0>>, <<85>>), <<>>, Coord(<<9>>, <<85>>)>>,
     <<Coord(<<1>>, <<85>>), <<Coord(<<9>>, <<85>>)>>, Coord(<<9>>, <<85>>)>>}

Legs ==
    {Leg(m, st[1], st[2], st[3], t) :
        m \in Modes, st \in LegStops, t \in Departures}

\* TrafficSituation and TrafficLightStatus records.  The description of a
\* situation of the model names its severity.
DescriptionOf(severity) ==
    CASE severity \in {"severe", "Severe"} -> "Accident"
      [] severity \in {"dangerous", "Danger"} -> "Rockfall"
      [] severity \in {"moderate", "normal"} -> "Roadworks"
      [] OTHER -> "Event"
Situation(severity, lat, lon) ==
    [description |-> DescriptionOf(severity), severity |-> severity,
     latitude |-> lat, longitude |-> lon]
Light(intersection_id, name, los, spillback, lat, lon) ==
    [intersection_id |-> intersection_id, name |-> name,
     level_of_service |-> los, spillback_length_meters |-> spillback,
     latitude |-> lat, longitude |-> lon]

\* Matched situations and lights a lookup can return for a leg.
MatchedSituations ==
    {Situation(sev, <<2>>, <<85>>) : sev \in {"minor", "moderate", "severe"}}
MatchedLights ==
    {Light("i1", <<>>, <<>>, <<>>, <<2>>, <<85>>),
     Light("i2", <<"Bellevue">>, <<"F">>, <<0>>, <<2>>, <<85>>),
     Light("i3", <<"">>, <<"c">>, <<250>>, <<2>>, <<85>>),
     Light("i4", <<>>, <<"B">>, <<99>>, <<2>>, <<85>>),
     Light("i5", <<>>, <<"D">>, <<-5>>, <<2>>, <<85>>),
     Light("i6", <<"Central">>, <<"E">>, <<1250>>, <<2>>, <<85>>)}

\* What the awaited get_traffic_near_route can give predict_delay_for_leg.
Lookups ==
    {[raised |-> TRUE, situations |-> <<>>, lights |-> <<>>]}
    \cup {[raised |-> FALSE, situations |-> ss, lights |-> ls] :
            ss \in SeqsUpTo(MatchedSituations, MaxSituations),
            ls \in SeqsUpTo(MatchedLights, MaxLights)}

\* Candidates of the proximity matcher: without a location, on the equator,
\* on the meridian 0, and at 0.3, 0.4 and 0.8 km from the first route point.
Candidates ==
    {Situation("minor", lat, lon) :
        lat \in {<<>>, <<0>>, <<4>>, <<5>>, <<9>>}, lon \in {<<>>, <<0>>, <<85>>}}
RouteLists == {<<>>, <<<<1, 85>>>>, <<<<1, 85>>, <<9, 85>>>>}

\* Disruption records: affected stops and lines.
Disruption(id, stops, lines) ==
    [id |-> id, affected_stops |-> stops, affected_lines |-> lines]
Disruptions ==
    {Disruption("d0", <<>>, <<>>), Disruption("d1", <<"a">>, <<>>),
     Disruption("d2", <<"b", "a">>, <<"1">>), Disruption("d3", <<>>, <<"2", "1">>)}

\* All the variables but lastCall.
programVars ==
    <<cache, available, keySet, inflight, returned, latest_disruptions,
      disruptions_available, latest_traffic_available, subscribers, queue,
      pcSub, stream, heartbeats, jobs, phase, published, regAt, lastGood,
      windowVal, starved>>

\* No call of the engine, the matcher or the filter is recorded.
NoCall == [op |-> "none", args |-> <<>>, result |-> <<>>]

\* The caller has taken the result of the recorded call.
CallDone ==
    /\ lastCall.op # "none"
    /\ lastCall' = NoCall
    /\ UNCHANGED programVars

\* A call of predict_delay_for_leg; the traffic lookup is awaited only for a
\* road-mode leg with route points.
PredictLeg ==
    /\ lastCall.op = "none"
    /\ \E leg \in Legs :
      \E lookup \in (IF LookupNeeded(leg) THEN {<<o>> : o \in Lookups} ELSE {<<>>}) :
        /\ lastCall' = [op |-> "predict_delay_for_leg",
                        args |-> [leg |-> leg, lookup |-> lookup],
                        result |-> predict_delay_for_leg(leg, lookup)]
        /\ UNCHANGED programVars

\* Legs of the trips: a bus or a rail leg that starts at one of the two
\* located stops, in the morning peak or at midday.
TripLegs ==
    {Leg(m, o, <<>>, NoCoord, t) :
        m \in {"bus", "rail"},
        o \in {Coord(<<1>>, <<85>>), Coord(<<9>>, <<85>>)},
        t \in {6 * 60, 13 * 60}}

\* What the upstream traffic feed holds while a trip is predicted: nothing,
\* or one situation 0.1 km from the first located stop.
Upstreams == {<<>>, <<Situation("severe", <<2>>, <<85>>)>>,
              <<Situation("minor", <<2>>, <<85>>)>>}

\* A call of predict_delays_for_trip for a trip of two legs.  Each leg's
\* get_traffic_near_route(route_points, radius_km=0.3) calls the two fetch
\* functions in the current state of their caches.
PredictTrip ==
    /\ lastCall.op = "none"
    /\ \E l1 \in TripLegs, l2 \in TripLegs, upstream \in Upstreams :
        LET legs == <<l1, l2>>
            lookups == [i \in 1..2 |->
                          IF LookupNeeded(legs[i])
                          THEN <<get_traffic_near_route(RoutePoints(legs[i]), 3,
                                                        TrafficFetched)>>
                          ELSE <<>>]
        IN /\ lastCall' = [op |-> "predict_delays_for_trip",
                           args |-> [legs |-> legs, upstream |-> upstream],
                           result |-> predict_delays_for_trip(legs, lookups)]
           /\ UNCHANGED programVars

\* A call of get_traffic_near_route whose fetches returned the candidates.
MatchNear ==
    /\ lastCall.op = "none"
    /\ \E cs \in SeqsUpTo(Candidates, MaxCandidates), route_points \in RouteLists :
        /\ lastCall' = [op |-> "get_traffic_near_route",
                        args |-> [route_points |-> route_points, radius_km |-> 3,
                                  situations |-> cs],
                        result |-> get_traffic_near_route(route_points, 3,
                                      [raised |-> FALSE, situations |-> cs,
                                       lights |-> <<>>])]
        /\ UNCHANGED programVars

\* A call of get_disruptions_for_route whose fetch returned all_disruptions.
FilterRoute ==
    /\ lastCall.op = "none"
    /\ \E all_disruptions \in SeqsUpTo(Disruptions, MaxDisruptions),
          stop_ids \in {<<>>, <<"a">>, <<"b", "c">>},
          line_refs \in {<<>>, <<"1">>, <<"3">>} :
        /\ lastCall' = [op |-> "get_disruptions_for_route",
                        args |-> [stop_ids |-> stop_ids, line_refs |-> line_refs,
                                  all_disruptions |-> all_disruptions],
                        result |-> get_disruptions_for_route(stop_ids, line_refs,
                                                             all_disruptions)]
        /\ UNCHANGED programVars

(* ---------------------------------------------------------------------- *)
(* Specifications                                                          *)
(* ---------------------------------------------------------------------- *)

\* Module state after import: empty caches, both availability flags True,
\* no data, no subscribers, no jobs.  The credentials are settings; either
\* may be configured empty.
Init ==
    /\ cache = [f \in Feeds |-> NoEntry]
    /\ available = [f \in FlaggedFeeds |-> TRUE]
    /\ keySet \in [FlaggedFeeds -> BOOLEAN]
    /\ inflight = [c \in Tasks |-> "none"]
    /\ returned = <<>>
    /\ latest_disruptions = <<>>
    /\ disruptions_available = FALSE
    /\ latest_traffic_available = FALSE
    /\ subscribers = <<>>
    /\ queue = [s \in Subscribers |-> <<>>]
    /\ pcSub = [s \in Subscribers |-> "idle"]
    /\ stream = [s \in Subscribers |-> <<>>]
    /\ heartbeats = [s \in Subscribers |-> 0]
    /\ jobs = {}
    /\ phase = "init"
    /\ published = 0
    /\ regAt = [s \in Subscribers |-> 0]
    /\ lastGood = [f \in Feeds |-> <<>>]
    /\ windowVal = [f \in Feeds |-> <<>>]
    /\ starved = [s \in Subscribers |-> FALSE]
    /\ lastCall = NoCall

\* The feeds: startup, the refresh jobs, the request handlers, the TTLs.
NextFeeds ==
    \/ LifespanStart
    \/ \E c \in Refreshers : RefreshDone(c)
    \/ TickDisruptions
    \/ TickTraffic
    \/ \E f \in Feeds : Expire(f)
    \/ \E q \in Requests, f \in Feeds : RequestFetch(q, f)
    \/ \E q \in Requests : RequestDone(q)

\* The hub: startup, the disruption refresh and the SSE subscribers.
NextHub ==
    \/ LifespanStart
    \/ \E c \in Refreshers : RefreshDone(c)
    \/ TickDisruptions
    \/ Expire("disruptions")
    \/ \E s \in Subscribers : Connect(s)
    \/ \E s \in Subscribers : Snapshot(s)
    \/ \E s \in Subscribers : NextEvent(s)
    \/ \E s \in Subscribers : Heartbeat(s)
    \/ \E s \in Subscribers : Disconnect(s)

Next == NextFeeds \/ NextHub

Spec == Init /\ [][Next]_vars

SpecFeeds == Init /\ [][NextFeeds]_vars

\* The startup and the first clients: the lifespan, the request handlers and
\* the SSE connections, without the scheduler's ticks.
NextStartup ==
    \/ LifespanStart
    \/ RefreshDone("lifespan")
    \/ \E f \in Feeds : Expire(f)
    \/ \E q \in Requests, f \in Feeds : RequestFetch(q, f)
    \/ \E q \in Requests : RequestDone(q)
    \/ \E s \in Subscribers : Connect(s)
    \/ \E s \in Subscribers : Snapshot(s)
    \/ \E s \in Subscribers : Disconnect(s)

SpecStartup == Init /\ [][NextStartup]_vars

\* The request-time computations, each call on its own.
NextEngine ==
    \/ PredictLeg
    \/ MatchNear
    \/ FilterRoute
    \/ PredictTrip
    \/ CallDone

\* The credentials have no part in these computations: both are configured.
InitEngine == Init /\ keySet = [f \in FlaggedFeeds |-> TRUE]

SpecEngine == InitEngine /\ [][NextEngine]_vars

\* The delays feed has no part in the hub: its credential is left configured.
InitHub == Init /\ keySet["delays"]

SpecHub == InitHub /\ [][NextHub]_vars

(* ---------------------------------------------------------------------- *)
(* Properties                                                              *)
(* ---------------------------------------------------------------------- *)

\* The fetch calls that return in the step to the primed state.
ReturnsNow == {returned'[i] : i \in 1..Len(returned')}

\* The return r belongs to a call that started in this very step.
StartedNow(r) == inflight[r.task] = "none"

\* The return r ends a call that was awaiting its upstream request.
FromUpstream(r) == inflight[r.task] = r.feed

\* Events of its queue that subscriber s has been handed, in order.
Live(s) == SelectSeq(stream[s], LAMBDA m : m.src = "queue")

\* C1: a fetch call made while the feed's cache entry is unexpired returns the
\* value returned by the call that stored the entry, and issues no upstream
\* request: no task starts awaiting a feed whose entry is unexpired.
C1_CachedWithinTtl ==
    [][ /\ \A r \in ReturnsNow :
              (StartedNow(r) /\ cache[r.feed] # NoEntry) =>
                  /\ r.kind \in {"ok", "list"}
                  /\ <<r.value>> = windowVal[r.feed]
                  /\ inflight' = inflight
                  /\ cache' = cache
        /\ \A c \in Tasks :
              (inflight[c] = "none" /\ inflight'[c] # "none") =>
                  cache[inflight'[c]] = NoEntry ]_vars

\* A request handler was served a non-empty list from the cache.
C1_Witness ==
    \E i \in 1..Len(returned) :
        /\ returned[i].path = "hit"
        /\ returned[i].task \in Requests
        /\ returned[i].value = <<"d1">>

\* C2: when the upstream request of a feed fails after an earlier successful
\* fetch, the caller gets the previously fetched list with available false,
\* and when the caller is refresh_disruptions the hub's disruption state stays
\* the previously fetched list.
C2_StaleValueKept ==
    [][ \A r \in ReturnsNow :
            (FromUpstream(r) /\ ~r.available /\ lastGood[r.feed] # <<>>) =>
                /\ <<r.value>> = lastGood[r.feed]
                /\ ~available'[r.feed]
                /\ (r.task \in Refreshers =>
                        <<latest_disruptions'>> = lastGood[r.feed]) ]_vars

\* C3: at most one task awaits the upstream request of a feed at any time.
C3_SingleFlight ==
    \A f \in Feeds : Cardinality({c \in Tasks : inflight[c] = f}) <= 1

\* C4: no fetch call ends with an exception: every one returns a
\* (records, available) tuple to its caller.
C4_NeverRaises ==
    \A i \in 1..Len(returned) : returned[i].kind = "ok"

\* The credential the adapter of feed f sends is missing: the setting is
\* empty (realtime_client.py) or not defined at all (traffic_client.py reads
\* settings.OTD_API_KEY).
KeyMissing(f) == IF f \in FlaggedFeeds THEN ~keySet[f] ELSE TRUE

\* C5: a fetch call made with the credential missing and no unexpired entry
\* returns ([], False) without an upstream request, for every feed, and the
\* feed's availability flag is false afterwards.
C5_MissingCredential ==
    [][ /\ \A r \in ReturnsNow :
              (StartedNow(r) /\ cache[r.feed] = NoEntry /\ KeyMissing(r.feed)) =>
                  /\ r.kind = "ok"
                  /\ r.value = <<>>
                  /\ ~r.available
                  /\ (r.feed \in FlaggedFeeds => ~available'[r.feed])
        /\ \A c \in Tasks :
              (inflight[c] = "none" /\ inflight'[c] # "none") =>
                  ~KeyMissing(inflight'[c]) ]_vars

\* C6: a subscriber queue never holds more than QueueMaxSize events, and a
\* subscriber that read nothing while more than QueueMaxSize events were
\* published is handed at most QueueMaxSize events.
C6_BoundedDelivery ==
    \A s \in Subscribers :
        /\ Len(queue[s]) <= QueueMaxSize
        /\ (starved[s] => Len(Live(s)) <= QueueMaxSize)

\* A subscriber that read nothing during more than QueueMaxSize broadcasts
\* has then been handed a full queue of events.
C6_Witness ==
    \E s \in Subscribers : starved[s] /\ Len(Live(s)) = QueueMaxSize

\* C7: the first message of a stream is "connected", the second the snapshot
\* of the disruption state as it is when the snapshot is yielded, neither is
\* repeated later, and every queued event handed to the subscriber was
\* broadcast after its queue was registered.
C7_ConnectedSnapshotThenLive ==
    /\ [](\A s \in Subscribers :
            /\ (Len(stream[s]) >= 1 => stream[s][1].type = "connected")
            /\ (Len(stream[s]) >= 2 =>
                    /\ stream[s][2].src = "snapshot"
                    /\ stream[s][2].type = "disruptions_update")
            /\ \A i \in 3..Len(stream[s]) :
                    /\ stream[s][i].type # "connected"
                    /\ stream[s][i].src # "snapshot"
                    /\ (stream[s][i].src = "queue" => stream[s][i].seq > regAt[s]))
    /\ [][ \A s \in Subscribers :
              (Len(stream[s]) = 1 /\ Len(stream'[s]) = 2) =>
                  /\ stream'[s][2].disruptions = latest_disruptions
                  /\ stream'[s][2].available = disruptions_available ]_vars

\* A subscriber that connected after a later broadcast than the startup one
\* has been handed a queued event.
C7_Witness ==
    \E s \in Subscribers : regAt[s] >= 2 /\ Len(Live(s)) >= 1

\* C8: the queued events handed to a subscriber are broadcasts, in strictly
\* increasing broadcast order (no reordering, no duplicate).
C8_Fifo ==
    \A s \in Subscribers :
        /\ \A i \in 1..Len(Live(s)) : Live(s)[i].seq \in 1..published
        /\ \A i, j \in 1..Len(Live(s)) : i < j => Live(s)[i].seq < Live(s)[j].seq

\* A subscriber has been handed two queued events that were waiting together.
C8_Witness ==
    \E s \in Subscribers : Len(Live(s)) >= 2

\* C9: once a subscriber that was registered is no longer in the registry
\* (after a disconnect or an eviction), nothing more is yielded to it.
C9_ClosedAfterDeregistration ==
    [][ \A s \in Subscribers :
            (pcSub[s] # "idle" /\ s \notin Range(subscribers)) =>
                /\ Len(stream'[s]) <= Len(stream[s])
                /\ heartbeats'[s] <= heartbeats[s] ]_vars

\* C10: a disconnect removes the subscriber's own queue from the registry and
\* leaves the other subscribers' registrations, queues and streams, the
\* scheduler's jobs and the feed state unchanged.
C10_DisconnectFrame ==
    [][ \A s \in Subscribers :
            (pcSub[s] # "closed" /\ pcSub'[s] = "closed") =>
                /\ s \notin Range(subscribers')
                /\ subscribers' = SelectSeq(subscribers, LAMBDA t : t # s)
                /\ \A t \in Subscribers \ {s} :
                        /\ queue'[t] = queue[t]
                        /\ pcSub'[t] = pcSub[t]
                        /\ stream'[t] = stream[t]
                        /\ heartbeats'[t] = heartbeats[t]
                /\ jobs' = jobs
                /\ inflight' = inflight
                /\ UNCHANGED <<feedVars, mainVars>> ]_vars

\* One subscriber has disconnected while another is registered with events
\* waiting in its queue.
C10_Witness ==
    \E s, t \in Subscribers :
        /\ pcSub[s] = "closed"
        /\ t \in Range(subscribers)
        /\ queue[t] # <<>>

\* C11: a heartbeat is yielded only to a streaming subscriber whose queue is
\* empty, and to that subscriber alone: the step puts nothing on any queue and
\* yields nothing to any other subscriber.
C11_HeartbeatToOneSubscriber ==
    [][ \A s \in Subscribers :
            heartbeats'[s] > heartbeats[s] =>
                /\ pcSub[s] = "streaming"
                /\ queue[s] = <<>>
                /\ heartbeats'[s] = heartbeats[s] + 1
                /\ queue' = queue
                /\ subscribers' = subscribers
                /\ stream' = stream
                /\ \A t \in Subscribers \ {s} : heartbeats'[t] = heartbeats[t] ]_vars

\* One subscriber has been sent a heartbeat while another one, registered and
\* streaming, has been sent none and has nothing queued.
C11_Witness ==
    \E s, t \in Subscribers :
        /\ heartbeats[s] >= 1
        /\ t # s
        /\ t \in Range(subscribers)
        /\ pcSub[t] = "streaming"
        /\ heartbeats[t] = 0
        /\ queue[t] = <<>>

\* C12: a refresh_disruptions run whose fetch reports the feed available
\* makes exactly one broadcast: one "disruptions_update" event carrying the
\* fetched list is put on every registered queue that has room.
C12_RefreshBroadcasts ==
    [][ \A r \in ReturnsNow :
            (r.task \in Refreshers /\ r.feed = "disruptions" /\ r.available) =>
                /\ published' = published + 1
                /\ \A s \in Range(subscribers) :
                      Len(queue[s]) < QueueMaxSize =>
                          queue'[s] = Append(queue[s],
                              [type |-> "disruptions_update", seq |-> published + 1,
                               disruptions |-> r.value, available |-> TRUE])
                /\ \A s \in Subscribers :
                      Len(queue'[s]) <= Len(queue[s]) + 1 ]_vars

\* The scheduled job has just refreshed successfully with two subscribers
\* registered, and the new event is the last one on both queues.
C12_Witness ==
    /\ \E i \in 1..Len(returned) :
          returned[i].task = "job_d" /\ returned[i].available
    /\ Len(subscribers) = 2
    /\ \A s \in Range(subscribers) :
          /\ queue[s] # <<>>
          /\ queue[s][Len(queue[s])].seq = published

\* The return r reports a failed refresh: the fetch raised, or gave its
\* caller no (records, True) pair.
FailedRefresh(r) == r.kind # "ok" \/ ~r.available

\* C13: the scheduler holds both jobs from the startup on, and a failed
\* refresh of one feed leaves the other feed's refresh alone: at startup
\* refresh_traffic still runs after a failed refresh_disruptions and the
\* startup completes; on a tick a failed refresh_traffic changes neither the
\* tasks awaiting an upstream response nor the disruption state, and a failed
\* refresh_disruptions leaves the traffic state and the other tasks untouched.
C13_RefreshesIndependent ==
    /\ [](phase # "init" => jobs = JobIds)
    /\ [][ \A r \in ReturnsNow :
              FailedRefresh(r) =>
                  /\ (r.task = "lifespan" /\ r.feed = "disruptions" =>
                          /\ \E r2 \in ReturnsNow :
                                r2.task = "lifespan" /\ r2.feed = "situations"
                          /\ phase' = "ready"
                          /\ jobs' = JobIds)
                  /\ (r.task = "job_t" =>
                          /\ inflight' = inflight
                          /\ jobs' = jobs
                          /\ latest_disruptions' = latest_disruptions
                          /\ disruptions_available' = disruptions_available
                          /\ cache' = cache
                          /\ available' = available)
                  /\ (r.task = "job_d" =>
                          /\ jobs' = jobs
                          /\ latest_traffic_available' = latest_traffic_available
                          /\ \A c \in Tasks \ {"job_d"} : inflight'[c] = inflight[c]) ]_vars

\* The startup has completed although its refresh_disruptions failed and its
\* refresh_traffic failed after it.
C13_Witness ==
    /\ phase = "ready"
    /\ \E i, j \in 1..Len(returned) :
          /\ returned[i].task = "lifespan"
          /\ returned[i].feed = "disruptions"
          /\ FailedRefresh(returned[i])
          /\ returned[j].task = "lifespan"
          /\ returned[j].feed = "situations"
          /\ FailedRefresh(returned[j])

\* C14: the application becomes ready in the step in which the initial
\* refresh_disruptions and the initial refresh_traffic have both returned,
\* and until then no request handler has called a fetch and no SSE client is
\* connected.
C14_ReadyAfterInitialRefreshes ==
    /\ [](phase # "ready" =>
            /\ \A s \in Subscribers : pcSub[s] = "idle"
            /\ subscribers = <<>>
            /\ \A q \in Requests : inflight[q] = "none"
            /\ \A i \in 1..Len(returned) : returned[i].task \notin Requests)
    /\ [][ /\ (phase # "ready" /\ phase' = "ready") =>
                  /\ \E r \in ReturnsNow :
                        r.task = "lifespan" /\ r.feed = "disruptions"
                  /\ \E r \in ReturnsNow :
                        r.task = "lifespan" /\ r.feed = "situations"
                  /\ inflight'["lifespan"] = "none"
            /\ (phase # "ready" =>
                  /\ pcSub' = pcSub
                  /\ \A q \in Requests : inflight'[q] = "none"
                  /\ \A r \in ReturnsNow : r.task \notin Requests) ]_vars

\* After a startup that had to wait for its upstream response, a client is
\* connected and a request handler's fetch has returned.
C14_Witness ==
    /\ phase = "ready"
    /\ lastGood["disruptions"] # <<>>
    /\ \E s \in Subscribers : pcSub[s] = "streaming"
    /\ \E i \in 1..Len(returned) : returned[i].task \in Requests

\* The recorded call is a call of predict_delay_for_leg.
Predicted == lastCall.op = "predict_delay_for_leg"

\* C15: for a leg of any mode other than bus and tram, predict_delay_for_leg
\* returns None and has awaited no traffic lookup, whatever the leg's
\* coordinates and departure time.
C15_NonRoadModeAbsent ==
    (Predicted /\ lastCall.args.leg.mode \notin {"bus", "tram"}) =>
        /\ lastCall.result = <<>>
        /\ lastCall.args.lookup = <<>>

\* A metro leg with route points and a peak departure got no prediction.
C15_Witness ==
    /\ Predicted
    /\ lastCall.args.leg.mode = "metro"
    /\ RoutePoints(lastCall.args.leg) # <<>>
    /\ is_peak_hour(lastCall.args.leg.departure)
    /\ lastCall.result = <<>>

\* The recorded call predicted for a road-mode leg.
PredictedRoad == Predicted /\ lastCall.args.leg.mode \in {"bus", "tram"}

\* The recorded prediction was made with no matched situation and no matched
\* light: the lookup was not awaited, or failed, or returned two empty lists.
ZeroMatched ==
    IF lastCall.args.lookup = <<>> THEN TRUE
    ELSE /\ lastCall.args.lookup[1].situations = <<>>
         /\ lastCall.args.lookup[1].lights = <<>>

\* The recorded prediction had no traffic data to look at: the leg has no
\* route point, or the lookup failed.
NoTrafficData ==
    IF lastCall.args.lookup = <<>> THEN TRUE ELSE lastCall.args.lookup[1].raised

\* The delay of the base jitter alone, rounded: 1 for a bus (1 minute), 0 for
\* a tram (0.5 minute).
BaseJitterRounded == IF lastCall.args.leg.mode = "bus" THEN 1 ELSE 0

WithSevereAt(i) ==
    <<[lastCall.args.lookup[1] EXCEPT
          !.situations = [@ EXCEPT ![i] = [@ EXCEPT !.severity = "severe"]]]>>

\* The indices of the "minor" situations matched for the recorded prediction.
MatchedMinor ==
    IF PredictedRoad /\ lastCall.args.lookup # <<>>
    THEN {i \in 1..Len(lastCall.args.lookup[1].situations) :
            lastCall.args.lookup[1].situations[i].severity = "minor"}
    ELSE {}

\* C17: for a prediction made with a matched "minor" situation, the same
\* leg with that situation replaced by a "severe" one, everything else the
\* same, is predicted a delay that is not smaller.
C17_MonotonicInSeverity ==
    \A i \in MatchedMinor :
        predict_delay_for_leg(lastCall.args.leg, WithSevereAt(i))[1].predicted_delay_minutes
            >= lastCall.result[1].predicted_delay_minutes

\* A tram leg in a peak window with a matched "minor" situation next to
\* another situation: replacing the minor one raises the predicted delay.
C17_Witness ==
    /\ PredictedRoad
    /\ lastCall.args.leg.mode = "tram"
    /\ lastCall.result[1].is_peak_hour
    /\ \E i \in MatchedMinor :
          /\ Len(lastCall.args.lookup[1].situations) = 2
          /\ predict_delay_for_leg(lastCall.args.leg, WithSevereAt(i))[1].predicted_delay_minutes
                > lastCall.result[1].predicted_delay_minutes

\* The recorded call is a call of get_disruptions_for_route.
Filtered == lastCall.op = "get_disruptions_for_route"

\* Disruption d names a stop of the recorded query, or a line of it.
Relevant(d) ==
    \/ \E i \in 1..Len(d.affected_stops), j \in 1..Len(lastCall.args.stop_ids) :
          d.affected_stops[i] = lastCall.args.stop_ids[j]
    \/ \E i \in 1..Len(d.affected_lines), j \in 1..Len(lastCall.args.line_refs) :
          d.affected_lines[i] = lastCall.args.line_refs[j]

\* C18: get_disruptions_for_route returns, in input order, exactly the
\* disruptions that name a queried stop or a queried line; with no stop and
\* no line queried it returns the empty list.
C18_RelevanceFilter ==
    Filtered =>
        /\ lastCall.result = SelectSeq(lastCall.args.all_disruptions, Relevant)
        /\ (lastCall.args.stop_ids = <<>> /\ lastCall.args.line_refs = <<>>
                => lastCall.result = <<>>)

\* Two disruptions were returned in input order, the first one relevant by
\* its lines only and the second one by its stops only.
C18_Witness ==
    /\ Filtered
    /\ Len(lastCall.result) = 2
    /\ lastCall.result = lastCall.args.all_disruptions
    /\ lastCall.result[1].id = "d3"
    /\ lastCall.result[2].id = "d1"

\* The recorded call is a call of get_traffic_near_route.
Matched == lastCall.op = "get_traffic_near_route"

\* Candidate c has a location (both coordinates are given) and is at most
\* the recorded radius away from a recorded route point.
LocatedWithin(c) ==
    IF c.latitude # <<>> /\ c.longitude # <<>>
    THEN \E i \in 1..Len(lastCall.args.route_points) :
            haversine_distance(c.latitude[1], c.longitude[1],
                               lastCall.args.route_points[i][1],
                               lastCall.args.route_points[i][2])
                <= lastCall.args.radius_km
    ELSE FALSE

\* C19: get_traffic_near_route returns, in input order and each once,
\* exactly the candidates that have a location and lie within radius_km
\* (the boundary included) of some route point.
C19_ProximityMatcher ==
    Matched =>
        /\ ~lastCall.result.raised
        /\ lastCall.result.situations =
              SelectSeq(lastCall.args.situations, LocatedWithin)

\* The recorded call predicted the trip of the end-to-end scenario: two bus
\* legs, the first departing at 06:00 from a stop that a "severe" situation
\* of the upstream feed is 0.1 km away from, the second departing at 13:00
\* from a stop with no situation within 0.3 km.
ScenarioTrip ==
    /\ lastCall.op = "predict_delays_for_trip"
    /\ lastCall.args.legs[1] = Leg("bus", Coord(<<1>>, <<85>>), <<>>, NoCoord, 6 * 60)
    /\ lastCall.args.legs[2] = Leg("bus", Coord(<<9>>, <<85>>), <<>>, NoCoord, 13 * 60)
    /\ lastCall.args.upstream = <<Situation("severe", <<2>>, <<85>>)>>

\* C20: in the end-to-end scenario the first leg is predicted a greater
\* delay than the second, and the first leg's confidence carries the boost
\* for present situation data (0.70 + 0.15, less 0.10 for the peak).
C20_EndToEndTrip ==
    ScenarioTrip =>
        /\ lastCall.result[1][2][1].predicted_delay_minutes
              > lastCall.result[2][2][1].predicted_delay_minutes
        /\ lastCall.result[1][2][1].confidence_score = 70 + 15 - 10

\* C21: every prediction returned for a road-mode leg has a delay that is a
\* non-negative integer, a confidence between 0.10 and 1.00 and at most five
\* factors, whatever the lookup gave and whatever the departure time.
C21_PredictionWellFormed ==
    PredictedRoad =>
        /\ lastCall.result # <<>>
        /\ lastCall.result[1].predicted_delay_minutes \in Nat
        /\ lastCall.result[1].confidence_score \in 10..100
        /\ Len(lastCall.result[1].factors) <= 5

\* A prediction for which six rules fired (the base, two situations, the
\* congestion and the queue of a light, the peak hour) has five factors.
C21_Witness ==
    /\ PredictedRoad
    /\ lastCall.args.lookup # <<>>
    /\ Len(lastCall.args.lookup[1].situations) = 2
    /\ \E i \in 1..Len(lastCall.args.lookup[1].lights) :
          /\ get_los_delay(lastCall.args.lookup[1].lights[i].level_of_service) > 0
          /\ get_spillback_delay(lastCall.args.lookup[1].lights[i].spillback_length_meters) > 0
    /\ lastCall.result[1].is_peak_hour
    /\ Len(lastCall.result[1].factors) = 5

\* The factors of the rules that fire for the matched lights, in order: for
\* each light "Congestion at" it when its level of service is C, D, E or F
\* (in either case), then "Queue at" it when its spillback is 100 m or more.
RECURSIVE FiredForLights(_)
FiredForLights(lights) ==
    IF lights = <<>> THEN <<>>
    ELSE LET l == Head(lights)
             label == IF l.name \in {<<>>, <<"">>} THEN l.intersection_id ELSE l.name[1]
         IN (IF l.level_of_service \in
                    {<<x>> : x \in {"C", "D", "E", "F", "c", "d", "e", "f"}}
             THEN <<[rule |-> "Congestion at ", about |-> label]>> ELSE <<>>)
            \o (IF l.spillback_length_meters # <<>>
                THEN (IF l.spillback_length_meters[1] >= 100
                      THEN <<[rule |-> "Queue at ", about |-> label]>> ELSE <<>>)
                ELSE <<>>)
            \o FiredForLights(Tail(lights))

\* The factors of all the rules that fired for the recorded prediction, in
\* the order of firing: the mode's base, then what the lookup gave (the
\* situations in input order, then the lights in input order; or the note
\* that there was no coordinate or no data), then the peak hour.
FiredFactors ==
    LET leg == lastCall.args.leg
        lookup == lastCall.args.lookup
        t == leg.departure
    IN <<[rule |-> IF leg.mode = "bus" THEN "Bus service variability"
                   ELSE "Tram service variability", about |-> ""]>>
       \o (IF lookup = <<>>
           THEN <<[rule |-> "No coordinates available for traffic lookup", about |-> ""]>>
           ELSE IF lookup[1].raised
           THEN <<[rule |-> "Limited traffic data available", about |-> ""]>>
           ELSE [i \in 1..Len(lookup[1].situations) |->
                    [rule |-> "Traffic: ", about |-> lookup[1].situations[i].description]]
                \o FiredForLights(lookup[1].lights))
       \o (IF (345 <= t /\ t <= 420) \/ (990 <= t /\ t <= 1080)
           THEN <<[rule |-> "Peak hour traffic", about |-> ""]>> ELSE <<>>)

\* C22: the factors of a prediction are the first five of the factors that
\* fired, in the order of firing; a sixth and later factor is omitted, the
\* peak-hour factor included.
C22_FactorsInFiringOrder ==
    PredictedRoad =>
        LET fired == FiredFactors
        IN lastCall.result[1].factors =
              [i \in 1..(IF Len(fired) < 5 THEN Len(fired) ELSE 5) |-> fired[i]]

\* Six rules fired in a peak window, a minor situation before a severe one:
\* the factors list the minor one first and leave the peak-hour factor out.
C22_Witness ==
    /\ PredictedRoad
    /\ Len(FiredFactors) = 6
    /\ FiredFactors[6].rule = "Peak hour traffic"
    /\ lastCall.args.lookup[1].situations[1].severity = "minor"
    /\ lastCall.args.lookup[1].situations[2].severity = "severe"
    /\ lastCall.result[1].factors[2].about = "Event"
    /\ lastCall.result[1].factors[3].about = "Accident"
    /\ \A i \in 1..5 : lastCall.result[1].factors[i].rule # "Peak hour traffic"

\* The delay accumulated for the recorded prediction before the peak step, in
\* half-minutes: the mode's base and the increments of what the lookup gave.
AccumulatedX2 ==
    LET leg == lastCall.args.leg
        lookup == lastCall.args.lookup
        gave == IF lookup = <<>> THEN FALSE ELSE ~lookup[1].raised
        situations == IF gave THEN lookup[1].situations ELSE <<>>
        lights == IF gave THEN lookup[1].lights ELSE <<>>
    IN (IF leg.mode = "bus" THEN 2 ELSE 1)
       + 2 * SumSeq([i \in 1..Len(situations) |->
                        get_situation_delay(situations[i].severity)])
       + 2 * SumSeq([i \in 1..Len(lights) |->
                        get_los_delay(lights[i].level_of_service)
                        + get_spillback_delay(lights[i].spillback_length_meters)])

\* q quarter-minutes rounded to the nearest whole minute, a tie going to the
\* even minute.
RoundQuarters(q) ==
    IF q % 4 < 2 THEN q \div 4
    ELSE IF q % 4 > 2 THEN (q \div 4) + 1
    ELSE IF (q \div 4) % 2 = 0 THEN q \div 4 ELSE (q \div 4) + 1

\* C23: for a departure in a peak window the predicted delay is the
\* accumulated delay times 1.5, rounded to the nearest integer; a bus leg
\* with nothing matched yields round(1 * 1.5) = 2.
C23_PeakScaledAndRounded ==
    (PredictedRoad /\ lastCall.result[1].is_peak_hour) =>
        lastCall.result[1].predicted_delay_minutes = RoundQuarters(3 * AccumulatedX2)

\* The departure of the recorded leg is in a peak window (05:45-07:00 or
\* 16:30-18:00, bounds included).
DepartsInPeak ==
    LET t == lastCall.args.leg.departure
    IN (5 * 60 + 45 <= t /\ t <= 7 * 60) \/ (16 * 60 + 30 <= t /\ t <= 18 * 60)

\* The number of situations and of lights matched for the recorded
\* prediction (none when the lookup was not awaited or failed).
MatchedSituationCount ==
    IF lastCall.args.lookup = <<>> THEN 0
    ELSE Len(lastCall.args.lookup[1].situations)
MatchedLightCount ==
    IF lastCall.args.lookup = <<>> THEN 0
    ELSE Len(lastCall.args.lookup[1].lights)

\* The confidence, in hundredths, clamped to [0.10, 1.00], of the base 0.70
\* with the two boosts and the peak penalty, and with the no-data penalty
\* when noData holds.
ConfidenceOf(noData) ==
    LET c == 70 + (IF MatchedSituationCount >= 1 THEN 15 ELSE 0)
                + (IF MatchedLightCount >= 1 THEN 10 ELSE 0)
                - (IF DepartsInPeak THEN 10 ELSE 0)
                - (IF noData THEN 30 ELSE 0)
    IN IF c < 10 THEN 10 ELSE IF c > 100 THEN 100 ELSE c

LosIncrement(los) ==
    CASE los \in {<<"F">>, <<"f">>} -> 6
      [] los \in {<<"E">>, <<"e">>} -> 4
      [] los \in {<<"D">>, <<"d">>} -> 2
      [] los \in {<<"C">>, <<"c">>} -> 1
      [] OTHER -> 0

\* The increment of a spillback length: a whole minute per full 100 m when
\* the length is positive, without a cap.
SpillbackIncrement(spillback) ==
    IF spillback = <<>> THEN 0
    ELSE IF spillback[1] > 0 THEN spillback[1] \div 100 ELSE 0

\* The increment of a matched situation.
SituationIncrement(severity) ==
    CASE severity = "severe" -> 8 [] severity = "moderate" -> 4 [] OTHER -> 2

\* The recorded prediction was made off peak from a lookup that returned.
OffPeakWithData ==
    /\ PredictedRoad
    /\ ~DepartsInPeak
    /\ lastCall.args.lookup # <<>>
    /\ ~lastCall.args.lookup[1].raised

\* C25: off peak, where the accumulated delay is the result but for the
\* rounding, every matched light has added its level-of-service increment and
\* its spillback increment to the base and the situations' increments; the
\* level-of-service increments do not increase from F to A.
C25_LightIncrements ==
    /\ OffPeakWithData =>
          LET lookup == lastCall.args.lookup[1]
              minutes ==
                  SumSeq([i \in 1..Len(lookup.situations) |->
                             SituationIncrement(lookup.situations[i].severity)])
                  + SumSeq([i \in 1..Len(lookup.lights) |->
                             LosIncrement(lookup.lights[i].level_of_service)
                             + SpillbackIncrement(lookup.lights[i].spillback_length_meters)])
          IN lastCall.result[1].predicted_delay_minutes =
                RoundQuarters(4 * minutes + (IF lastCall.args.leg.mode = "bus" THEN 4 ELSE 2))
    /\ Predicted =>
          /\ get_los_delay(<<"F">>) >= get_los_delay(<<"E">>)
          /\ get_los_delay(<<"E">>) >= get_los_delay(<<"D">>)
          /\ get_los_delay(<<"D">>) >= get_los_delay(<<"C">>)
          /\ get_los_delay(<<"C">>) >= get_los_delay(<<"B">>)
          /\ get_los_delay(<<"B">>) >= get_los_delay(<<"A">>)
          /\ get_los_delay(<<>>) = 0

\* Off peak, a bus leg with no matched situation and one matched light of
\* level of service E with 1250 m of spillback is predicted 1 + 4 + 12
\* minutes.
C25_Witness ==
    /\ OffPeakWithData
    /\ lastCall.args.leg.mode = "bus"
    /\ lastCall.args.lookup[1].situations = <<>>
    /\ Len(lastCall.args.lookup[1].lights) = 1
    /\ lastCall.args.lookup[1].lights[1].level_of_service = <<"E">>
    /\ lastCall.args.lookup[1].lights[1].spillback_length_meters = <<1250>>
    /\ lastCall.result[1].predicted_delay_minutes = 17

\* The step to the primed state contains a call of broadcast_event: a
\* refresh_disruptions run gets the return of its fetch.
PublishesNow ==
    \E r \in ReturnsNow : r.task \in Refreshers /\ r.feed = "disruptions"

\* C26: a publish completes in the step in which it is called, whatever the
\* subscribers are doing: no generator moves, and when some registered queue
\* is full, every other registered queue that is not full still gets the
\* event of this publish appended.
C26_PublishNeverWaits ==
    [][ PublishesNow =>
            /\ published' = published + 1
            /\ pcSub' = pcSub
            /\ stream' = stream
            /\ \A t \in Range(subscribers) :
                  Len(queue[t]) >= QueueMaxSize =>
                      \A s \in Range(subscribers) \ {t} :
                          Len(queue[s]) < QueueMaxSize =>
                              /\ Len(queue'[s]) = Len(queue[s]) + 1
                              /\ queue'[s][Len(queue'[s])].seq = published + 1
                              /\ SubSeq(queue'[s], 1, Len(queue[s])) = queue[s] ]_vars

\* The last publish found the queue of a subscriber that had read nothing
\* full, and its event is the last one on the queue of another subscriber.
C26_Witness ==
    \E s, t \in Subscribers :
        /\ s # t
        /\ pcSub[s] \in {"connected", "streaming"}
        /\ NoLive(s)
        /\ Len(queue[s]) = QueueMaxSize
        /\ published = regAt[s] + QueueMaxSize + 1
        /\ t \in Range(subscribers)
        /\ queue[t] # <<>>
        /\ queue[t][Len(queue[t])].seq = published

\* C27: a publish that finds a registered queue full leaves that queue as it
\* is (the event is dropped for it) and removes it from the registry; from
\* then on the queue is never registered again and nothing is put on it, so
\* the dropped event is not delivered later and later publishes pass it by.
C27_DroppedThenEvicted ==
    [][ \A s \in Subscribers :
            /\ (PublishesNow /\ s \in Range(subscribers)
                    /\ Len(queue[s]) >= QueueMaxSize) =>
                  /\ queue'[s] = queue[s]
                  /\ s \notin Range(subscribers')
            /\ (pcSub[s] \in {"connected", "streaming"}
                    /\ s \notin Range(subscribers)) =>
                  /\ s \notin Range(subscribers')
                  /\ \E k \in 0..Len(queue[s]) :
                        queue'[s] = SubSeq(queue[s], k + 1, Len(queue[s])) ]_vars

\* A subscriber whose queue was found full has since emptied its queue, and
\* a later publish than the one that dropped its event has been made: the
\* last event it was handed is at least two publishes old.
C27_Witness ==
    \E s \in Subscribers :
        /\ pcSub[s] = "streaming"
        /\ s \notin Range(subscribers)
        /\ queue[s] = <<>>
        /\ Len(Live(s)) >= QueueMaxSize
        /\ published >= Live(s)[Len(Live(s))].seq + 2

\* The numbers of the events that subscriber s has been handed from its
\* queue, followed by those of the events still waiting in it.
ReceivedOrWaiting(s) ==
    [i \in 1..Len(Live(s)) |-> Live(s)[i].seq]
    \o [i \in 1..Len(queue[s]) |-> queue[s][i].seq]

\* C28: a generator registers its empty queue in the step in which it yields
\* "connected", before the snapshot is read, and as long as the queue is
\* registered (no publish has found it full) every event published since
\* then has been handed to the subscriber or waits in its queue, in order and
\* without a gap: none is lost between the snapshot and the live stream.
C28_NoGapAfterSnapshot ==
    /\ [](\A s \in Range(subscribers) :
            ReceivedOrWaiting(s) =
                [i \in 1..(published - regAt[s]) |-> regAt[s] + i])
    /\ [][ \A s \in Subscribers :
              (stream[s] = <<>> /\ stream'[s] # <<>>) =>
                  /\ stream'[s] = <<Message("connected", "generator", 0, <<>>, FALSE)>>
                  /\ s \in Range(subscribers')
                  /\ queue'[s] = <<>>
                  /\ regAt'[s] = published' ]_vars

\* A registered subscriber has been sent its snapshot, and the last event
\* waiting in its queue carries another disruption list than the snapshot:
\* it was published after the snapshot was read.
C28_Witness ==
    \E s \in Range(subscribers) :
        /\ pcSub[s] = "streaming"
        /\ Len(stream[s]) >= 2
        /\ queue[s] # <<>>
        /\ queue[s][Len(queue[s])].disruptions # stream[s][2].disruptions

\* C29: the availability that reaches a caller together with a disruption
\* list is the one of the fetch that gave the list: a refresh stores the
\* pair of one fetch in the module state, and the response of a request-time
\* lookup reports the availability that its own fetch returned.
C29_AvailableOfSameFetch ==
    [][ \A r \in ReturnsNow :
            r.feed = "disruptions" =>
                /\ (r.task \in Refreshers =>
                        /\ latest_disruptions' = r.value
                        /\ disruptions_available' = r.available)
                /\ (r.task \in Requests =>
                        /\ api_get_disruptions_for_route(r)'.records = r.value
                        /\ api_get_disruptions_for_route(r)'.available = r.available) ]_vars

\* Prediction p is what a failed lookup leaves for the road-mode leg: the
\* delay of the base jitter alone (bus 1, tram 0, in a peak window as well:
\* int(1.5) and int(0.75)), the confidence 0.70 - 0.30, less 0.10 in a peak
\* window, and the factor "Limited traffic data available".
AbsorbedFailure(leg, p) ==
    LET t == leg.departure
        peak == (5 * 60 + 45 <= t /\ t <= 7 * 60) \/ (16 * 60 + 30 <= t /\ t <= 18 * 60)
    IN /\ p.predicted_delay_minutes = (IF leg.mode = "bus" THEN 1 ELSE 0)
       /\ p.confidence_score = 70 - 30 - (IF peak THEN 10 ELSE 0)
       /\ \E i \in 1..Len(p.factors) :
             p.factors[i] = [rule |-> "Limited traffic data available", about |-> ""]
       /\ \A i \in 1..Len(p.factors) : p.factors[i].rule # "Traffic: "

\* The traffic lookup made for a leg of the recorded trip fails: one of the
\* two fetch calls raises.
TripLookupFails == TrafficFetched.raised

====
